---- MODULE Spec2Model ----
(***************************************************************************)
(* Model of the raw PCB decoding pipeline: RawPCBParser (raw_parser.js)    *)
(* and PartDataParser (part_data_parser.js).                               *)
(*                                                                         *)
(* A buffer is a sequence of bytes; JavaScript offsets are 0-based, so     *)
(* byte i of a buffer b is b[i + 1].  One parse call is a run of the state *)
(* machine: ParseBegin (XOR step and file header), then one action per     *)
(* iteration of the block scan, with the payload parser's sub-block loop   *)
(* unrolled into its own iterations while a DATA block is being decoded.   *)
(***************************************************************************)
EXTENDS Integers, Sequences, FiniteSets, TLC

(***************************************************************************)
(* Bounds of the model                                                     *)
(***************************************************************************)
\* number of records after the file header in a generated input file
MaxRecords == 2

\* number of parse calls made on one RawPCBParser
MaxCalls == 3

(***************************************************************************)
(* JavaScript values                                                       *)
(***************************************************************************)
\* the value `undefined` (and NaN, its numeric conversion) where a number is
\* expected; every relational comparison with it is false
Undefined == -999999

\* the value null of parsed_data
Null == [null |-> TRUE]

Min(a, b) == IF a <= b THEN a ELSE b

Max(a, b) == IF a >= b THEN a ELSE b

RECURSIVE BitXor(_, _)
\* a ^ b on bytes
BitXor(a, b) ==
  IF a = 0 /\ b = 0 THEN 0
  ELSE (((a % 2) + (b % 2)) % 2) + 2 * BitXor(a \div 2, b \div 2)

\* a < b, a <= b with JavaScript's treatment of undefined/NaN operands
JsLess(a, b) == a # Undefined /\ b # Undefined /\ a < b

JsLeq(a, b) == a # Undefined /\ b # Undefined /\ a <= b

(***************************************************************************)
(* DataView reads (little-endian).  A read of n bytes at offset o raises   *)
(* RangeError unless 0 <= o and o + n <= byteLength.                       *)
(***************************************************************************)
InBounds(view, o, n) == o >= 0 /\ o + n <= Len(view)

getUint8(view, o) == view[o + 1]

getUint16(view, o) == view[o + 1] + 256 * view[o + 2]

getUint32(view, o) ==
  view[o + 1] + 256 * view[o + 2] + 65536 * view[o + 3] + 16777216 * view[o + 4]

getInt32(view, o) ==
  view[o + 1] + 256 * view[o + 2] + 65536 * view[o + 3]
    + 16777216 * (IF view[o + 4] >= 128 THEN view[o + 4] - 256 ELSE view[o + 4])

\* bytes [o, o + n) of a buffer: new Uint8Array(buffer, o, n)
Bytes(view, o, n) == SubSeq(view, o + 1, o + n)

\* ArrayBuffer.prototype.slice(0, end): end is clamped to the byte length
SliceTo(buffer, end) == SubSeq(buffer, 1, Min(Max(end, 0), Len(buffer)))

(***************************************************************************)
(* TextDecoder('utf-8').decode: non-fatal decoding to a sequence of code   *)
(* points.  One- and two-byte sequences are decoded, every other byte      *)
(* yields U+FFFD, and a leading byte order mark is dropped.                *)
(***************************************************************************)
ReplacementChar == 65533

RECURSIVE Utf8Units(_)
Utf8Units(bytes) ==
  IF bytes = <<>> THEN <<>>
  ELSE LET b == Head(bytes) IN
       IF b < 128 THEN <<b>> \o Utf8Units(Tail(bytes))
       ELSE IF b >= 194 /\ b <= 223 /\ Len(bytes) >= 2
               /\ bytes[2] >= 128 /\ bytes[2] <= 191
            THEN <<(b - 192) * 64 + (bytes[2] - 128)>> \o Utf8Units(Tail(Tail(bytes)))
       ELSE IF b = 239 /\ Len(bytes) >= 3 /\ bytes[2] = 187 /\ bytes[3] = 191
            THEN <<65279>> \o Utf8Units(Tail(Tail(Tail(bytes))))
       ELSE <<ReplacementChar>> \o Utf8Units(Tail(bytes))

TextDecode(bytes) ==
  LET u == Utf8Units(bytes)
  IN  IF u # <<>> /\ Head(u) = 65279 THEN Tail(u) ELSE u

(***************************************************************************)
(* Sequential field reads.  A layout lists, in source order, the reads and *)
(* skips of one record; ReadFields performs them against the cursor and    *)
(* stops at the first read that raises RangeError.  Its result holds the   *)
(* cursor, the fields read so far and the highest byte offset a read       *)
(* touched (hi).                                                           *)
(***************************************************************************)
U32(f) == [k |-> "u32", f |-> f, n |-> 4]

I32(f) == [k |-> "i32", f |-> f, n |-> 4]

U16(f) == [k |-> "u16", f |-> f, n |-> 2]

U8(f) == [k |-> "u8", f |-> f, n |-> 1]

\* this.offset += n
Skip(n) == [k |-> "skip", f |-> "", n |-> n]

\* readString(vals[len]): the Uint8Array is always constructed
Str(f, len) == [k |-> "str", f |-> f, n |-> 0, len |-> len]

\* if (size > 0) { new Uint8Array(..., size); decode; this.offset += size }
OptStr(f, len) == [k |-> "optstr", f |-> f, n |-> 0, len |-> len]

ReadValue(view, o, k) ==
  CASE k = "u32" -> getUint32(view, o)
    [] k = "i32" -> getInt32(view, o)
    [] k = "u16" -> getUint16(view, o)
    [] k = "u8"  -> getUint8(view, o)

RECURSIVE ReadFields(_, _, _, _, _)
ReadFields(view, off, layout, vals, hi) ==
  IF layout = <<>> THEN [ok |-> TRUE, offset |-> off, v |-> vals, hi |-> hi]
  ELSE
    LET it   == Head(layout)
        rest == Tail(layout)
        fail == [ok |-> FALSE, offset |-> off, v |-> vals, hi |-> hi]
    IN  CASE it.k = "skip" -> ReadFields(view, off + it.n, rest, vals, hi)
          [] it.k \in {"u32", "i32", "u16", "u8"} ->
               IF InBounds(view, off, it.n)
               THEN ReadFields(view, off + it.n, rest,
                               vals @@ (it.f :> ReadValue(view, off, it.k)),
                               Max(hi, off + it.n))
               ELSE fail
          [] it.k = "str" ->
               IF InBounds(view, off, vals[it.len])
               THEN ReadFields(view, off + vals[it.len], rest,
                               vals @@ (it.f :> TextDecode(Bytes(view, off, vals[it.len]))),
                               IF vals[it.len] > 0 THEN Max(hi, off + vals[it.len]) ELSE hi)
               ELSE fail
          [] it.k = "optstr" ->
               IF vals[it.len] = 0
               THEN ReadFields(view, off, rest, vals @@ (it.f :> <<>>), hi)
               ELSE IF InBounds(view, off, vals[it.len])
               THEN ReadFields(view, off + vals[it.len], rest,
                               vals @@ (it.f :> TextDecode(Bytes(view, off, vals[it.len]))),
                               Max(hi, off + vals[it.len]))
               ELSE fail

Read(view, off, layout) == ReadFields(view, off, layout, <<>>, 0)

(***************************************************************************)
(* RawPCBParser: the top-level block parsers.  Each takes the data view    *)
(* and the cursor just after the tag byte and yields ok (FALSE when a read *)
(* raised), the new cursor and the block it returns.                       *)
(***************************************************************************)
\* `let block;` left unassigned
NoBlock == [undefined |-> TRUE]

\* the object literal {}
EmptyObject == <<>>

\* if (block): undefined is falsy, every object (also {}) is truthy
Truthy(block) == block # NoBlock

Raised(r) == [ok |-> FALSE, offset |-> r.offset, block |-> NoBlock]

\* parseType01 with the cursor moved by blockSize instead of by the fields read
parseType01_SkipsByBlockSize(view, off) ==
  LET Decoded(r) ==
        IF ~r.ok THEN Raised(r)
          ELSE [ok |-> TRUE, offset |-> off + 4 + r.v.blockSize,
                block |-> [ARC |-> [layer |-> r.v.layer, x1 |-> r.v.x1, y1 |-> r.v.y1,
                                    r |-> r.v.r, angle_start |-> r.v.angleStart,
                                    angle_end |-> r.v.angleEnd, scale |-> r.v.scale,
                                    unknown_arc |-> r.v.unknownArc]]]
  IN  Decoded(Read(view, off,
                 <<U32("blockSize"), U32("layer"), U32("x1"), U32("y1"), I32("r"),
                   I32("angleStart"), I32("angleEnd"), I32("scale"), I32("unknownArc")>>))

parseType01(view, off) ==
  LET Decoded(r) ==
        IF ~r.ok THEN Raised(r)
          ELSE [ok |-> TRUE, offset |-> r.offset,
                block |-> [ARC |-> [layer |-> r.v.layer, x1 |-> r.v.x1, y1 |-> r.v.y1,
                                    r |-> r.v.r, angle_start |-> r.v.angleStart,
                                    angle_end |-> r.v.angleEnd, scale |-> r.v.scale,
                                    unknown_arc |-> r.v.unknownArc]]]
  IN  Decoded(Read(view, off,
                 <<U32("blockSize"), U32("layer"), U32("x1"), U32("y1"), I32("r"),
                   I32("angleStart"), I32("angleEnd"), I32("scale"), I32("unknownArc")>>))

\* parseType02 with the cursor moved by blockSize instead of by the fields read
parseType02_SkipsByBlockSize(view, off) ==
  LET Decoded(r) ==
        IF ~r.ok THEN Raised(r)
          ELSE [ok |-> TRUE, offset |-> off + 4 + r.v.blockSize,
                block |-> [VIA |-> [x |-> r.v.x, y |-> r.v.y,
                                    outer_radius |-> r.v.outerRadius,
                                    inner_radius |-> r.v.innerRadius,
                                    layer_a_index |-> r.v.layerAIndex,
                                    layer_b_index |-> r.v.layerBIndex,
                                    net_index |-> r.v.netIndex,
                                    via_text |-> r.v.viaText]]]
  IN  Decoded(Read(view, off,
                 <<U32("blockSize"), I32("x"), I32("y"), I32("outerRadius"),
                   I32("innerRadius"), U32("layerAIndex"), U32("layerBIndex"),
                   U32("netIndex"), U32("viaTextLength"), Str("viaText", "viaTextLength")>>))

parseType02(view, off) ==
  LET Decoded(r) ==
        IF ~r.ok THEN Raised(r)
          ELSE [ok |-> TRUE, offset |-> r.offset,
                block |-> [VIA |-> [x |-> r.v.x, y |-> r.v.y,
                                    outer_radius |-> r.v.outerRadius,
                                    inner_radius |-> r.v.innerRadius,
                                    layer_a_index |-> r.v.layerAIndex,
                                    layer_b_index |-> r.v.layerBIndex,
                                    net_index |-> r.v.netIndex,
                                    via_text |-> r.v.viaText]]]
  IN  Decoded(Read(view, off,
                 <<U32("blockSize"), I32("x"), I32("y"), I32("outerRadius"),
                   I32("innerRadius"), U32("layerAIndex"), U32("layerBIndex"),
                   U32("netIndex"), U32("viaTextLength"), Str("viaText", "viaTextLength")>>))

parseType03(view, off) ==
  LET Decoded(r) ==
        IF ~r.ok THEN Raised(r)
          ELSE [ok |-> TRUE, offset |-> r.offset + r.v.blockSize, block |-> EmptyObject]
  IN  Decoded(Read(view, off, <<U32("blockSize")>>))

parseType05(view, off) ==
  LET Decoded(r) ==
        IF ~r.ok THEN Raised(r)
          ELSE [ok |-> TRUE, offset |-> r.offset,
                block |-> [SEGMENT |-> [layer |-> r.v.layer, x1 |-> r.v.x1, y1 |-> r.v.y1,
                                        x2 |-> r.v.x2, y2 |-> r.v.y2, scale |-> r.v.scale,
                                        trace_net_index |-> r.v.traceNetIndex]]]
  IN  Decoded(Read(view, off,
                 <<U32("blockSize"), U32("layer"), I32("x1"), I32("y1"), I32("x2"),
                   I32("y2"), I32("scale"), U32("traceNetIndex")>>))

parseType06(view, off) ==
  LET Decoded(r) ==
        IF ~r.ok THEN Raised(r)
          ELSE [ok |-> TRUE, offset |-> r.offset,
                block |-> [TEXT |-> [unknown_1 |-> r.v.unknown1, pos_x |-> r.v.posX,
                                     pos_y |-> r.v.posY, text_size |-> r.v.textSize,
                                     divider |-> r.v.divider, empty |-> r.v.empty,
                                     one |-> r.v.one, text_length |-> r.v.textLength,
                                     text |-> r.v.text]]]
  IN  Decoded(Read(view, off,
                 <<U32("blockSize"), U32("unknown1"), U32("posX"), U32("posY"),
                   U32("textSize"), U32("divider"), U32("empty"), U16("one"),
                   U32("textLength"), Str("text", "textLength")>>))

parseType09(view, off) ==
  LET Decoded(r) ==
        IF ~r.ok THEN Raised(r)
          ELSE [ok |-> TRUE, offset |-> r.offset + r.v.blockSize, block |-> EmptyObject]
  IN  Decoded(Read(view, off, <<U32("blockSize")>>))

(***************************************************************************)
(* PartDataParser: header and sub-block parsers.  Each sub-block parser    *)
(* takes the (trimmed) data view and the cursor just after the sub-type    *)
(* tag and yields ok (FALSE when a read raised), the new cursor, the       *)
(* sub-block and the highest byte offset touched.                          *)
(***************************************************************************)
\* parseHeader skipping four bytes after visibility instead of one
parseHeader_SkipsWordAfterVisibility(view, off) ==
  LET Decoded(r) ==
        IF ~r.ok THEN [ok |-> FALSE, offset |-> r.offset, header |-> Null]
          ELSE [ok |-> TRUE, offset |-> r.offset,
                header |-> [part_size |-> r.v.part_size, part_x |-> r.v.part_x,
                            part_y |-> r.v.part_y, part_rotation |-> r.v.part_rotation,
                            visibility |-> r.v.visibility,
                            part_group_name_size |-> r.v.part_group_name_size,
                            part_group_name |-> r.v.part_group_name]]
  IN  Decoded(Read(view, off,
                 <<U32("part_size"), Skip(4), U32("part_x"), U32("part_y"),
                   U32("part_rotation"), U8("visibility"), Skip(4),
                   U32("part_group_name_size"),
                   OptStr("part_group_name", "part_group_name_size")>>))

parseHeader(view, off) ==
  LET Decoded(r) ==
        IF ~r.ok THEN [ok |-> FALSE, offset |-> r.offset, header |-> Null]
          ELSE [ok |-> TRUE, offset |-> r.offset,
                header |-> [part_size |-> r.v.part_size, part_x |-> r.v.part_x,
                            part_y |-> r.v.part_y, part_rotation |-> r.v.part_rotation,
                            visibility |-> r.v.visibility,
                            part_group_name_size |-> r.v.part_group_name_size,
                            part_group_name |-> r.v.part_group_name]]
  IN  Decoded(Read(view, off,
                 <<U32("part_size"), Skip(4), U32("part_x"), U32("part_y"),
                   U32("part_rotation"), U8("visibility"), Skip(1),
                   U32("part_group_name_size"),
                   OptStr("part_group_name", "part_group_name_size")>>))

SubRaised(r) == [ok |-> FALSE, offset |-> r.offset, sub |-> Null, hi |-> r.hi]

\* parseSubType01 with a skip that never moves the cursor backwards
parseSubType01_NeverMovesBack(view, off) ==
  LET Decoded(r) ==
        IF ~r.ok THEN SubRaised(r)
          ELSE [ok |-> TRUE, offset |-> r.offset + Max(r.v.blockSize - 12, 0), hi |-> r.hi,
                sub |-> [type |-> "sub_type_01", sub_type_identifier_01 |-> 1,
                         block_size |-> r.v.blockSize, layer |-> r.v.layer,
                         x1 |-> r.v.x1, y1 |-> r.v.y1,
                         padding_size |-> r.v.blockSize - 12]]
  IN  Decoded(Read(view, off, <<U32("blockSize"), U32("layer"), U32("x1"), U32("y1")>>))

parseSubType01(view, off) ==
  LET Decoded(r) ==
        IF ~r.ok THEN SubRaised(r)
          ELSE [ok |-> TRUE, offset |-> r.offset + (r.v.blockSize - 12), hi |-> r.hi,
                sub |-> [type |-> "sub_type_01", sub_type_identifier_01 |-> 1,
                         block_size |-> r.v.blockSize, layer |-> r.v.layer,
                         x1 |-> r.v.x1, y1 |-> r.v.y1,
                         padding_size |-> r.v.blockSize - 12]]
  IN  Decoded(Read(view, off, <<U32("blockSize"), U32("layer"), U32("x1"), U32("y1")>>))

parseSubType05(view, off) ==
  LET Decoded(r) ==
        IF ~r.ok THEN SubRaised(r)
          ELSE [ok |-> TRUE, offset |-> r.offset, hi |-> r.hi,
                sub |-> [type |-> "sub_type_05", sub_type_identifier_05 |-> 5,
                         block_size |-> r.v.blockSize, layer |-> r.v.layer,
                         x1 |-> r.v.x1, y1 |-> r.v.y1, x2 |-> r.v.x2, y2 |-> r.v.y2,
                         scale |-> r.v.scale]]
  IN  Decoded(Read(view, off,
                 <<U32("blockSize"), U32("layer"), U32("x1"), U32("y1"), U32("x2"),
                   U32("y2"), U32("scale"), Skip(4)>>))

parseSubType06(view, off) ==
  LET Decoded(r) ==
        IF ~r.ok THEN SubRaised(r)
          ELSE [ok |-> TRUE, offset |-> r.offset, hi |-> r.hi,
                sub |-> [type |-> "sub_type_06", sub_type_identifier_06 |-> 6,
                         block_size |-> r.v.blockSize, layer |-> r.v.layer,
                         x |-> r.v.x, y |-> r.v.y, font_size |-> r.v.fontSize,
                         font_scale |-> r.v.fontScale, visibility |-> r.v.visibility,
                         label_size |-> r.v.labelSize, label |-> r.v.label]]
  IN  Decoded(Read(view, off,
                 <<U32("blockSize"), U32("layer"), U32("x"), U32("y"), U32("fontSize"),
                   U32("fontScale"), Skip(4), U8("visibility"), Skip(1),
                   U32("labelSize"), OptStr("label", "labelSize")>>))

\* the body of the pin loop: one pin record, then this.offset += 13
PinLayout ==
  <<U32("un1"), U32("x"), U32("y"), U32("un2"), U32("pinRotation"),
    U32("pinNameSize"), OptStr("pinName", "pinNameSize"), U32("width"),
    U32("height"), U8("pin_shape"), Skip(23), U32("netIndex"), Skip(13)>>

RECURSIVE ReadPins(_, _, _, _, _, _)
\* while (this.offset + blockSize <= this.cur_block_size) { ... pins.push(...) }
ReadPins(view, off, blockSize, cur, pins, hi) ==
  IF ~JsLeq(off + blockSize, cur)
  THEN [ok |-> TRUE, offset |-> off, pins |-> pins, hi |-> hi]
  ELSE LET Pushed(r) ==
             IF ~r.ok THEN [ok |-> FALSE, offset |-> r.offset, pins |-> pins, hi |-> r.hi]
             ELSE ReadPins(view, r.offset, blockSize, cur,
                         Append(pins, [un1 |-> r.v.un1, x |-> r.v.x, y |-> r.v.y,
                                       un2 |-> r.v.un2, pin_rotation |-> r.v.pinRotation,
                                       pin_name_size |-> r.v.pinNameSize,
                                       pin_name |-> r.v.pinName, height |-> r.v.height,
                                       width |-> r.v.width, pin_shape |-> r.v.pin_shape,
                                       netIndex |-> r.v.netIndex]),
                         r.hi)
       IN  Pushed(ReadFields(view, off, PinLayout, <<>>, hi))

parseSubType09(view, off, cur) ==
  LET Decoded(r, p) ==
        IF ~p.ok THEN SubRaised(p)
        ELSE [ok |-> TRUE, offset |-> p.offset, hi |-> p.hi,
              sub |-> [type |-> "sub_type_09", sub_type_identifier_09 |-> 9,
                       block_size |-> r.v.blockSize, pins |-> p.pins]]
      Pins(r) ==
        IF ~r.ok THEN SubRaised(r)
        ELSE Decoded(r, ReadPins(view, r.offset, r.v.blockSize, cur, <<>>, r.hi))
  IN  Pins(Read(view, off, <<U32("blockSize")>>))

\* parseSubBlock raising for an unknown sub-type instead of returning null
parseSubBlock_UnknownRaises(view, off, cur) ==
  IF off >= Len(view) THEN [ok |-> TRUE, offset |-> off, sub |-> Null, hi |-> 0]
  ELSE LET subTypeIdentifier == getUint8(view, off)
           o == off + 1
           r == CASE subTypeIdentifier = 1 -> parseSubType01(view, o)
                  [] subTypeIdentifier = 5 -> parseSubType05(view, o)
                  [] subTypeIdentifier = 6 -> parseSubType06(view, o)
                  [] subTypeIdentifier = 9 -> parseSubType09(view, o, cur)
                  [] OTHER -> [ok |-> FALSE, offset |-> o, sub |-> Null, hi |-> 0]
           Touched(s) == [s EXCEPT !.hi = Max(s.hi, o)]
       IN  Touched(r)

\* parseSubBlock: null at the end of the view and for an unknown sub-type
parseSubBlock(view, off, cur) ==
  IF off >= Len(view) THEN [ok |-> TRUE, offset |-> off, sub |-> Null, hi |-> 0]
  ELSE LET subTypeIdentifier == getUint8(view, off)
           o == off + 1
           r == CASE subTypeIdentifier = 1 -> parseSubType01(view, o)
                  [] subTypeIdentifier = 5 -> parseSubType05(view, o)
                  [] subTypeIdentifier = 6 -> parseSubType06(view, o)
                  [] subTypeIdentifier = 9 -> parseSubType09(view, o, cur)
                  [] OTHER -> [ok |-> TRUE, offset |-> o, sub |-> Null, hi |-> 0]
           Touched(s) == [s EXCEPT !.hi = Max(s.hi, o)]
       IN  Touched(r)

(***************************************************************************)
(* RawPCBParser: XOR de-obfuscation                                        *)
(***************************************************************************)
\* the marker sequence searched by parse
MarkerSequence == <<118, 54, 118, 54, 53, 53, 53, 118, 54, 118, 54>>

\* What findSequence sees of the DataView that parse passes as `array`: a
\* DataView has byteLength but neither a length property nor indexed
\* elements, so array.length and array[i] are undefined.
DataViewAsArray(view) == [length |-> Undefined, elems |-> <<>>]

\* array[k]
ElemAt(array, k) == IF k < Len(array.elems) THEN array.elems[k + 1] ELSE Undefined

\* array.length - sequence.length (NaN when array.length is undefined)
JsMinus(a, b) == IF a = Undefined THEN Undefined ELSE a - b

\* the indices i the outer loop visits: 0 <= i <= array.length - sequence.length
\* (none when the bound is NaN)
SearchRange(array, sequence) ==
  IF JsMinus(array.length, Len(sequence)) = Undefined THEN {}
  ELSE 0 .. (array.length - Len(sequence))

\* the first index at which the inner loop finds every element equal, or -1
findSequence(array, sequence) ==
  LET found == {i \in SearchRange(array, sequence) :
                  \A j \in 0 .. Len(sequence) - 1 :
                    ElemAt(array, i + j) = sequence[j + 1]}
  IN  IF found = {} THEN -1 ELSE CHOOSE i \in found : \A k \in found : i <= k

\* the loop adding the key to each byte instead of XORing it
XorPrefix_AddsKey(buf, n, key) ==
  [i \in 1 .. Len(buf) |-> IF i <= n THEN (buf[i] + key) % 256 ELSE buf[i]]

\* for (i = 0; i < n; i++) setUint8(i, getUint8(i) ^ key)
XorPrefix(buf, n, key) ==
  [i \in 1 .. Len(buf) |-> IF i <= n THEN BitXor(buf[i], key) ELSE buf[i]]

\* the length parse de-obfuscates
xoredDataLength(view) ==
  LET sequenceIndex == findSequence(DataViewAsArray(view), MarkerSequence)
  IN  IF sequenceIndex # -1 THEN sequenceIndex ELSE Len(view)

\* the XOR step applied with the key 0x5A when byte 0x10 is zero
XorStep_DefaultKey(view) ==
  IF getUint8(view, 16) # 0
  THEN XorPrefix(view, xoredDataLength(view), getUint8(view, 16))
  ELSE XorPrefix(view, xoredDataLength(view), 90)

\* the XOR step leaving the key byte at 0x10 as it was
XorStep_KeepsKeyByte(view) ==
  IF getUint8(view, 16) # 0
  THEN [XorPrefix(view, xoredDataLength(view), getUint8(view, 16)) EXCEPT ![17] = view[17]]
  ELSE view

\* the buffer after the XOR step of parse (byte 0x10 is readable)
XorStep(view) ==
  IF getUint8(view, 16) # 0
  THEN XorPrefix(view, xoredDataLength(view), getUint8(view, 16))
  ELSE view

\* end of the file header, where the block scan starts
HeaderEnd == 68

(***************************************************************************)
(* Input files.  The encoders write records in the layout the parsers      *)
(* read; the input set is a bounded family of files built from them.       *)
(***************************************************************************)
\* little-endian bytes of a u32 (n >= 0) or an i32 (n < 0)
LE32(n) ==
  IF n >= 0
  THEN <<n % 256, (n \div 256) % 256, (n \div 65536) % 256, (n \div 16777216) % 256>>
  ELSE LET m == n + 2147483647 + 1
       IN  <<m % 256, (m \div 256) % 256, (m \div 65536) % 256,
             ((m \div 16777216) % 256) + 128>>

LE16(n) == <<n % 256, (n \div 256) % 256>>

Zeros(n) == [i \in 1 .. n |-> 0]

Fill(n, b) == [i \in 1 .. n |-> b]

RECURSIVE Utf8Encode(_)
\* UTF-8 bytes of a string of code points below U+0800
Utf8Encode(str) ==
  IF str = <<>> THEN <<>>
  ELSE IF Head(str) < 128 THEN <<Head(str)>> \o Utf8Encode(Tail(str))
  ELSE <<192 + (Head(str) \div 64), 128 + (Head(str) % 64)>> \o Utf8Encode(Tail(str))

EncArc(blockSize, a) ==
  <<1>> \o LE32(blockSize) \o LE32(a.layer) \o LE32(a.x1) \o LE32(a.y1) \o LE32(a.r)
       \o LE32(a.angle_start) \o LE32(a.angle_end) \o LE32(a.scale)
       \o LE32(a.unknown_arc)

EncVia(blockSize, v) ==
  <<2>> \o LE32(blockSize) \o LE32(v.x) \o LE32(v.y) \o LE32(v.outer_radius)
       \o LE32(v.inner_radius) \o LE32(v.layer_a_index) \o LE32(v.layer_b_index)
       \o LE32(v.net_index) \o LE32(Len(Utf8Encode(v.via_text)))
       \o Utf8Encode(v.via_text)

EncSegment(blockSize, g) ==
  <<5>> \o LE32(blockSize) \o LE32(g.layer) \o LE32(g.x1) \o LE32(g.y1) \o LE32(g.x2)
       \o LE32(g.y2) \o LE32(g.scale) \o LE32(g.trace_net_index)

EncText(blockSize, t) ==
  <<6>> \o LE32(blockSize) \o LE32(t.unknown_1) \o LE32(t.pos_x) \o LE32(t.pos_y)
       \o LE32(t.text_size) \o LE32(t.divider) \o LE32(t.empty) \o LE16(t.one)
       \o LE32(Len(Utf8Encode(t.text))) \o Utf8Encode(t.text)

\* a sized record of tag 0x03, 0x07 or 0x09 carrying the given body bytes
EncSized(tag, blockSize, body) == <<tag>> \o LE32(blockSize) \o body

\* field values used in the generated records (every byte below 0x80)
ArcA == [layer |-> 1, x1 |-> 100, y1 |-> 50, r |-> 25, angle_start |-> 0,
         angle_end |-> 90, scale |-> 2, unknown_arc |-> 3]

ArcB == [layer |-> 28, x1 |-> 4660, y1 |-> 7, r |-> 1, angle_start |-> 45,
         angle_end |-> 30, scale |-> 0, unknown_arc |-> 0]

\* an arc with negative i32 fields
ArcNeg == [layer |-> 2, x1 |-> 300, y1 |-> 200, r |-> -5, angle_start |-> -90,
           angle_end |-> 180, scale |-> -1, unknown_arc |-> -2147483647]

\* the via of the spec's scenario
ViaScenario == [x |-> 100, y |-> 200, outer_radius |-> 50, inner_radius |-> 20,
                layer_a_index |-> 1, layer_b_index |-> 3, net_index |-> 7,
                via_text |-> <<>>]

ViaA == [x |-> 100, y |-> 20, outer_radius |-> 50, inner_radius |-> 20,
         layer_a_index |-> 1, layer_b_index |-> 3, net_index |-> 7, via_text |-> <<>>]

ViaB == [x |-> 5, y |-> 6, outer_radius |-> 9, inner_radius |-> 4,
         layer_a_index |-> 2, layer_b_index |-> 1, net_index |-> 0,
         via_text |-> <<86, 49>>]

\* a via with negative coordinates and a two-byte character in its text
ViaNeg == [x |-> -100, y |-> -1, outer_radius |-> 50, inner_radius |-> 20,
           layer_a_index |-> 1, layer_b_index |-> 3, net_index |-> 7,
           via_text |-> <<86, 233>>]

SegA == [layer |-> 3, x1 |-> 10, y1 |-> 20, x2 |-> 30, y2 |-> 40, scale |-> 1,
         trace_net_index |-> 12]

TextA == [unknown_1 |-> 0, pos_x |-> 11, pos_y |-> 22, text_size |-> 8,
          divider |-> 1, empty |-> 0, one |-> 1, text_length |-> 2,
          text |-> <<65, 66>>]

\* parameters of the generated files: an unknown top-level tag, a blockSize
\* beyond every buffer, the ciphertext lengths of the DATA records, the scan
\* budget that covers every generated body and the XOR key
Gen == [unknownTag |-> 127, hugeSize |-> 2130706432, smallData |-> 8,
        largeData |-> 256, bigBudget |-> 4096, key |-> 90]

Records ==
  { EncArc(32, ArcA), EncArc(0, ArcB),
    EncVia(21, ViaA), EncVia(0, ViaB),
    EncSized(3, 2, <<1, 2>>), EncSized(3, Gen.hugeSize, <<>>),
    <<4>>, <<8>>,
    EncSegment(28, SegA),
    EncText(32, TextA),
    EncSized(7, Gen.smallData, Fill(Gen.smallData, 17)),
    EncSized(7, Gen.largeData, Fill(Gen.largeData, 34)),
    EncSized(9, 1, <<9>>),
    <<Gen.unknownTag>>,
    Zeros(4),
    MarkerSequence }

RECURSIVE BodiesOf(_)
\* the concatenations of at most n records
BodiesOf(n) ==
  IF n = 0 THEN {<<>>}
  ELSE LET B == BodiesOf(n - 1) IN B \cup {b \o r : b \in B, r \in Records}

\* bytes 0x00..0x3f of the file header; byte 0x10 is zero in a plain file
HeaderPrefixes ==
  [ A |-> Zeros(64),
    B |-> LE32(256) \o Zeros(18) \o LE32(28672) \o Zeros(38),
    C |-> LE32(256) \o Zeros(22) \o <<5>> \o Zeros(37) ]

FileOf(prefix, mainSize, body) == HeaderPrefixes[prefix] \o LE32(mainSize) \o body

\* offset of the first occurrence of seq in buf, or -1
FirstOccurrence(buf, seq) ==
  LET occ == {i \in 0 .. Len(buf) - Len(seq) : SubSeq(buf, i + 1, i + Len(seq)) = seq}
  IN  IF occ = {} THEN -1 ELSE CHOOSE i \in occ : \A k \in occ : i <= k

\* the de-obfuscation length the format intends: up to the marker, or all
MarkerLength(buf) ==
  IF FirstOccurrence(buf, MarkerSequence) # -1
  THEN FirstOccurrence(buf, MarkerSequence) ELSE Len(buf)

\* an obfuscated file: the bytes before the marker XORed with the key
Obfuscate(plain, key) ==
  IF key = 0 THEN plain
  ELSE LET n == MarkerLength(plain) IN XorPrefix(plain, n, key)

DropLast(buf, n) == SubSeq(buf, 1, Len(buf) - n)

\* how a generated file varies: key, budget, truncation, header prefix and
\* which libraries the page has loaded
Variations ==
  { [key |-> 0,   mds |-> Gen.bigBudget, cut |-> 0, prefix |-> "A", crypto |-> TRUE,  part |-> TRUE],
    [key |-> Gen.key, mds |-> Gen.bigBudget, cut |-> 0, prefix |-> "A", crypto |-> TRUE,  part |-> TRUE],
    [key |-> 0,   mds |-> 13,        cut |-> 0, prefix |-> "A", crypto |-> TRUE,  part |-> TRUE],
    [key |-> 0,   mds |-> 0,         cut |-> 0, prefix |-> "A", crypto |-> TRUE,  part |-> TRUE],
    [key |-> 0,   mds |-> Gen.bigBudget, cut |-> 3, prefix |-> "A", crypto |-> TRUE,  part |-> TRUE],
    [key |-> 0,   mds |-> Gen.bigBudget, cut |-> 1, prefix |-> "A", crypto |-> TRUE,  part |-> TRUE],
    [key |-> 0,   mds |-> Gen.bigBudget, cut |-> 0, prefix |-> "A", crypto |-> FALSE, part |-> TRUE],
    [key |-> 0,   mds |-> Gen.bigBudget, cut |-> 0, prefix |-> "B", crypto |-> FALSE, part |-> TRUE],
    [key |-> 0,   mds |-> Gen.bigBudget, cut |-> 0, prefix |-> "C", crypto |-> FALSE, part |-> TRUE],
    [key |-> 0,   mds |-> Gen.bigBudget, cut |-> 0, prefix |-> "A", crypto |-> TRUE,  part |-> FALSE] }

GeneratedFile(v, body) ==
  Obfuscate(FileOf(v.prefix, v.mds, DropLast(body, Min(v.cut, Len(body)))), v.key)

\* single-record files whose bytes reach 0x80 and above, and the spec's
\* VIA scenario
SpecialBodies ==
  {EncVia(21, ViaScenario), EncVia(21, ViaNeg), EncArc(32, ArcNeg),
   EncArc(Gen.hugeSize, ArcA), EncVia(Gen.hugeSize, ViaB)}

SpecialFiles ==
  {FileOf("A", m, b) : m \in {0, 1, 13, Gen.bigBudget}, b \in SpecialBodies}
    \cup {DropLast(FileOf("A", Gen.bigBudget, b), 1) : b \in SpecialBodies}

\* two records under budgets that end inside, at the end of and just after
\* the first record
BudgetFiles ==
  {FileOf("A", m, EncArc(32, ArcA) \o EncVia(21, ViaA)) : m \in {1, 37, 38}}

\* buffers too short for the XOR check or for the file header
ShortFiles == {Zeros(10), Zeros(48), [Zeros(67) EXCEPT ![17] = Gen.key]}

Env(crypto, part) == [CryptoJS |-> crypto, PartDataParser |-> part]

\* the variations applied to files of more than one record
CoreVariations ==
  {v \in Variations : v.key = 0 /\ v.mds = Gen.bigBudget /\ v.cut = 0 /\ v.part
                        /\ v.prefix = (IF v.crypto THEN "A" ELSE "C")}

\* the buffers that are parsed again by an instance that has parsed another
\* buffer in between, and the buffers parsed in between: one that raises
\* before the header is read, one that raises in the scan under a budget of
\* 13, one that is scanned to its end
ReparsedBuffers ==
  {GeneratedFile(v, b) : v \in Variations, b \in BodiesOf(1)}
    \cup SpecialFiles \cup BudgetFiles \cup ShortFiles

OtherBuffers ==
  {Zeros(10), FileOf("A", 13, DropLast(EncArc(32, ArcA), 3)),
   FileOf("B", Gen.bigBudget, EncVia(21, ViaA))}

\* the parse calls of the model: a buffer and the page's environment
Inputs ==
  {[buffer |-> GeneratedFile(v, b), env |-> Env(v.crypto, v.part)] :
      v \in Variations, b \in BodiesOf(1)}
    \cup {[buffer |-> GeneratedFile(v, b), env |-> Env(v.crypto, v.part)] :
            v \in CoreVariations, b \in BodiesOf(MaxRecords)}
    \cup {[buffer |-> f, env |-> Env(TRUE, TRUE)] : f \in SpecialFiles \cup BudgetFiles \cup ShortFiles}

(***************************************************************************)
(* DATA payloads.  CryptoJS is an external library: decryptWithDES yields  *)
(* either an exception or some plaintext no longer than the ciphertext.    *)
(* The plaintexts are drawn from a family of encoded part payloads.        *)
(***************************************************************************)
EncPartHeader(h) ==
  LE32(h.part_size) \o Zeros(4) \o LE32(h.part_x) \o LE32(h.part_y)
    \o LE32(h.part_rotation) \o <<h.visibility, 0>>
    \o LE32(Len(Utf8Encode(h.part_group_name))) \o Utf8Encode(h.part_group_name)

EncSub01(b) ==
  <<1>> \o LE32(b.block_size) \o LE32(b.layer) \o LE32(b.x1) \o LE32(b.y1)
       \o Zeros(Max(b.block_size - 12, 0))

EncSub05(b) ==
  <<5>> \o LE32(b.block_size) \o LE32(b.layer) \o LE32(b.x1) \o LE32(b.y1)
       \o LE32(b.x2) \o LE32(b.y2) \o LE32(b.scale) \o Zeros(4)

EncSub06(b) ==
  <<6>> \o LE32(b.block_size) \o LE32(b.layer) \o LE32(b.x) \o LE32(b.y)
       \o LE32(b.font_size) \o LE32(b.font_scale) \o Zeros(4) \o <<b.visibility, 0>>
       \o LE32(Len(Utf8Encode(b.label))) \o Utf8Encode(b.label)

EncPin(p) ==
  LE32(p.un1) \o LE32(p.x) \o LE32(p.y) \o LE32(p.un2) \o LE32(p.pin_rotation)
    \o LE32(Len(Utf8Encode(p.pin_name))) \o Utf8Encode(p.pin_name)
    \o LE32(p.width) \o LE32(p.height) \o <<p.pin_shape>> \o Zeros(23)
    \o LE32(p.netIndex) \o Zeros(13)

RECURSIVE EncPins(_)
EncPins(pins) == IF pins = <<>> THEN <<>> ELSE EncPin(Head(pins)) \o EncPins(Tail(pins))

EncSub09(blockSize, pins) == <<9>> \o LE32(blockSize) \o EncPins(pins)

\* a payload whose part_size covers exactly the header and the given bytes
EncPayload(h, subBlocks) ==
  LET name == Utf8Encode(h.part_group_name)
  IN  EncPartHeader([h EXCEPT !.part_size = 22 + Len(name) + Len(subBlocks)])
        \o subBlocks

HeaderU1 == [part_size |-> 0, part_x |-> 10, part_y |-> 20, part_rotation |-> 1,
             visibility |-> 1, part_group_name |-> <<85, 49>>]

HeaderNoName == [part_size |-> 0, part_x |-> 33, part_y |-> 44, part_rotation |-> 0,
                 visibility |-> 0, part_group_name |-> <<>>]

GeomA == [block_size |-> 12, layer |-> 17, x1 |-> 3, y1 |-> 4]

LineA == [block_size |-> 28, layer |-> 17, x1 |-> 1, y1 |-> 2, x2 |-> 3, y2 |-> 4,
          scale |-> 6]

LineB == [block_size |-> 28, layer |-> 18, x1 |-> 11, y1 |-> 12, x2 |-> 13,
          y2 |-> 14, scale |-> 16]

LabelA == [block_size |-> 30, layer |-> 17, x |-> 7, y |-> 8, font_size |-> 12,
           font_scale |-> 1, visibility |-> 1, label |-> <<82, 49>>]

PinA == [un1 |-> 0, x |-> 21, y |-> 22, un2 |-> 0, pin_rotation |-> 0,
         pin_name |-> <<65>>, width |-> 5, height |-> 6, pin_shape |-> 1,
         netIndex |-> 31]

PinB == [un1 |-> 0, x |-> 41, y |-> 42, un2 |-> 0, pin_rotation |-> 1,
         pin_name |-> <<66>>, width |-> 7, height |-> 8, pin_shape |-> 2,
         netIndex |-> 32]

\* a payload with the bytes parseHeader skips (0x04-0x07 and 0x15) set
ReservedSet(payload) ==
  [i \in 1 .. Len(payload) |-> IF i \in 5 .. 8 \/ i = 22 THEN 17 ELSE payload[i]]

\* geometry sub-blocks with blockSize 0 and 4: the first ends where the
\* second starts, the second where a line segment starts
ShortGeometryPayload ==
  EncPayload(HeaderU1, <<1>> \o LE32(0) \o <<1>> \o LE32(4) \o LE32(17) \o EncSub05(LineA))

\* the payload of the spec's scenario: one pin array with two pins
PinsPayload == EncPayload(HeaderNoName, EncSub09(74, <<PinA, PinB>>))

Plaintexts ==
  { <<>>,
    <<1, 2, 3>>,
    EncPayload(HeaderU1, EncSub01(GeomA) \o EncSub05(LineA) \o EncSub06(LabelA)),
    PinsPayload,
    PinsPayload \o <<5, 28, 0, 0, 0>>,
    ReservedSet(EncPayload(HeaderU1, EncSub05(LineA))),
    ShortGeometryPayload,
    \* part_size promises a whole line segment, six bytes are missing
    DropLast(EncPayload(HeaderU1, EncSub05(LineA)), 6),
    \* an unknown sub-type between two sub-blocks
    EncPayload(HeaderU1, EncSub01(GeomA) \o <<127>> \o EncSub05(LineA)),
    \* part_size ends before the header does
    EncPartHeader([HeaderU1 EXCEPT !.part_size = 10]) \o EncSub05(LineA),
    \* a line segment beyond part_size
    EncPayload(HeaderU1, EncSub05(LineA)) \o EncSub05(LineB),
    \* part_size ends inside the second line segment
    EncPartHeader([HeaderU1 EXCEPT !.part_size = 24 + 33 + 10])
      \o EncSub05(LineA) \o EncSub05(LineB) }

\* the outcomes of decryptWithDES(encryptedData)
DecryptOutcomes(encryptedData, cryptoAvailable) ==
  IF ~cryptoAvailable THEN {[raised |-> TRUE, bytes |-> <<>>]}
  ELSE {[raised |-> TRUE, bytes |-> <<>>]}
         \cup {[raised |-> FALSE, bytes |-> p] :
                 p \in {q \in Plaintexts : Len(q) <= Len(encryptedData)}}

(***************************************************************************)
(* State                                                                   *)
(***************************************************************************)
VARIABLES
  input,               \* the bytes of the ArrayBuffer as handed to parse
  env,                 \* which of CryptoJS and PartDataParser are defined
  file,                \* the ArrayBuffer behind this.dataView (XORed in place)
  pc,                  \* "start", "scan", "sub", "done" (returned), "raised"
  offset,              \* RawPCBParser.offset
  mainDataBlocksSize,  \* RawPCBParser.mainDataBlocksSize
  blocks,              \* the blocks array of parseMainDataBlocks
  iterStart,           \* the cursor at the start of the latest scan iteration
  blockType,           \* the tag read by the latest scan iteration
  t07,                 \* the locals of the latest parseType07 call
  part,                \* the fields of the PartDataParser of that call
  result,              \* the result object of PartDataParser.parse
  partReadHi,          \* highest offset read from the trimmed data view
  session              \* the parse calls made on this RawPCBParser so far

vars == <<input, env, file, pc, offset, mainDataBlocksSize, blocks, iterStart,
          blockType, t07, part, result, partReadHi, session>>

\* blockType before any tag was read, and for a padding iteration
NoTag == -1

PaddingTag == -2

\* new PartDataParser()
NewPart == [arrayBuffer |-> <<>>, dataView |-> <<>>, offset |-> 0,
            cur_block_size |-> 0, pin_block_size |-> 0]

NoT07 == [blockSize |-> 0, encryptedData |-> <<>>, decryptedData |-> <<>>,
          decryptRaised |-> FALSE, parseRaised |-> FALSE]

NoResult == [header |-> Null, sub_blocks |-> <<>>]

\* the first call on a new RawPCBParser: nothing returned or decrypted yet
FirstCall ==
  [calls |-> 1, first |-> [input |-> <<>>, pc |-> "start", blocks |-> <<>>],
   outcomes |-> <<>>, used |-> 0, same |-> FALSE]

Init ==
  /\ \E i \in Inputs : input = i.buffer /\ env = i.env
  /\ file = input
  /\ pc = "start"
  /\ offset = 0
  /\ mainDataBlocksSize = 0
  /\ blocks = <<>>
  /\ iterStart = 0
  /\ blockType = NoTag
  /\ t07 = NoT07
  /\ part = NewPart
  /\ result = NoResult
  /\ partReadHi = 0
  /\ session = FirstCall

(***************************************************************************)
(* RawPCBParser.parse up to the start of the block scan: the XOR step and  *)
(* parseFileHeader.  getUint8(0x10) raises on a buffer of at most 0x10     *)
(* bytes, the header reads raise on a buffer shorter than 0x44 bytes.      *)
(***************************************************************************)
\* the calls of parse on one instance: the odd calls are given the bytes of
\* the first call, the even calls another buffer.  decryptWithDES is a
\* function of its ciphertext: a repeated call finds the outcomes of the
\* first call again, in their order.  session.same marks the second parse
\* of one buffer (ParseSameBuffer), which finds them again too.
Repeated == session.calls > 1 /\ session.calls % 2 = 1

SameAsBefore(d) ==
  ((Repeated \/ session.same) /\ session.used < Len(session.outcomes)) =>
     d = session.outcomes[session.used + 1]

Decrypted(d) ==
  IF session.calls = 1 THEN [session EXCEPT !.outcomes = Append(@, d)]
  ELSE [session EXCEPT !.used = @ + 1]

\* parse is called again on the instance, up to `this.offset = 0`; the
\* locals of the call that has ended are gone
ParseAgain ==
  /\ pc \in {"done", "raised"}
  /\ session.calls < MaxCalls
  /\ ~session.same
  /\ IF session.calls % 2 = 1
     THEN /\ session.calls = 1 => input \in ReparsedBuffers
          /\ input' \in OtherBuffers
          /\ session' = [session EXCEPT
                           !.calls = @ + 1,
                           !.first = IF session.calls = 1
                                     THEN [input |-> input, pc |-> pc, blocks |-> blocks]
                                     ELSE @]
     ELSE /\ input' = session.first.input
          /\ session' = [session EXCEPT !.calls = @ + 1, !.used = 0]
  /\ file' = input'
  /\ offset' = 0
  /\ pc' = "start"
  /\ blocks' = <<>>
  /\ iterStart' = 0
  /\ blockType' = NoTag
  /\ t07' = NoT07
  /\ part' = NewPart
  /\ result' = NoResult
  /\ partReadHi' = 0
  /\ UNCHANGED <<env, mainDataBlocksSize>>

\* parse has returned and is called again with the buffer it was given,
\* which holds the bytes the XOR step left in it
ParseSameBuffer ==
  /\ pc = "done"
  /\ session.calls = 1
  /\ session.calls < MaxCalls
  /\ input \in ReparsedBuffers
  /\ input' = file
  /\ session' = [session EXCEPT
                   !.calls = @ + 1,
                   !.first = [input |-> input, pc |-> pc, blocks |-> blocks],
                   !.used = 0,
                   !.same = TRUE]
  /\ file' = input'
  /\ offset' = 0
  /\ pc' = "start"
  /\ blocks' = <<>>
  /\ iterStart' = 0
  /\ blockType' = NoTag
  /\ t07' = NoT07
  /\ part' = NewPart
  /\ result' = NoResult
  /\ partReadHi' = 0
  /\ UNCHANGED <<env, mainDataBlocksSize>>

\* parse with a header step that keeps a budget the instance already holds
ParseBegin_KeepsBudget ==
  /\ pc = "start"
  /\ IF ~InBounds(file, 16, 1)
     THEN /\ pc' = "raised"
          /\ UNCHANGED <<file, offset, mainDataBlocksSize>>
     ELSE /\ file' = XorStep(file)
          /\ IF InBounds(file, 32, 4) /\ InBounds(file, 36, 4)
                /\ InBounds(file, 40, 4) /\ InBounds(file, 64, 4)
             THEN /\ mainDataBlocksSize' = IF mainDataBlocksSize # 0
                                           THEN mainDataBlocksSize
                                           ELSE getUint32(file', 64)
                  /\ offset' = HeaderEnd
                  /\ pc' = "scan"
             ELSE /\ pc' = "raised"
                  /\ UNCHANGED <<offset, mainDataBlocksSize>>
  /\ UNCHANGED <<session, input, env, blocks, iterStart, blockType, t07, part, result,
                 partReadHi>>

ParseBegin ==
  /\ pc = "start"
  /\ IF ~InBounds(file, 16, 1)
     THEN /\ pc' = "raised"
          /\ UNCHANGED <<file, offset, mainDataBlocksSize>>
     ELSE /\ file' = XorStep(file)
          /\ IF InBounds(file, 32, 4) /\ InBounds(file, 36, 4)
                /\ InBounds(file, 40, 4) /\ InBounds(file, 64, 4)
             THEN /\ mainDataBlocksSize' = getUint32(file', 64)
                  /\ offset' = HeaderEnd
                  /\ pc' = "scan"
             ELSE /\ pc' = "raised"
                  /\ UNCHANGED <<offset, mainDataBlocksSize>>
  /\ UNCHANGED <<session, input, env, blocks, iterStart, blockType, t07, part, result, partReadHi>>

(***************************************************************************)
(* parseMainDataBlocks: one action per way an iteration of the loop runs.  *)
(***************************************************************************)
endOffset == HeaderEnd + mainDataBlocksSize

\* the loop bounded by the buffer length only
LoopGuard_IgnoresBudget == offset < Len(file)

\* while (this.offset < endOffset && this.offset < this.dataView.byteLength)
LoopGuard == offset < endOffset /\ offset < Len(file)

\* the loop is left and parse returns {main_data_block: blocks}
ScanEnd ==
  /\ pc = "scan"
  /\ ~LoopGuard
  /\ pc' = "done"
  /\ UNCHANGED <<session, input, env, file, offset, mainDataBlocksSize, blocks, iterStart,
                 blockType, t07, part, result, partReadHi>>

\* the padding check getUint32(this.offset) raises: fewer than 4 bytes left
ScanPaddingCheckRaises ==
  /\ pc = "scan"
  /\ LoopGuard
  /\ ~InBounds(file, offset, 4)
  /\ pc' = "raised"
  /\ iterStart' = offset
  /\ UNCHANGED <<session, input, env, file, offset, mainDataBlocksSize, blocks, blockType,
                 t07, part, result, partReadHi>>

\* the padding iteration with the cursor moved by one byte only
ScanPadding_SkipsOneByte ==
  /\ pc = "scan"
  /\ LoopGuard
  /\ InBounds(file, offset, 4)
  /\ getUint32(file, offset) = 0
  /\ offset' = offset + 1
  /\ iterStart' = offset
  /\ blockType' = PaddingTag
  /\ UNCHANGED <<session, input, env, file, pc, mainDataBlocksSize, blocks, t07, part,
                 result, partReadHi>>

\* if (paddingCheck === 0) { this.offset += 4; continue; }
ScanPadding ==
  /\ pc = "scan"
  /\ LoopGuard
  /\ InBounds(file, offset, 4)
  /\ getUint32(file, offset) = 0
  /\ offset' = offset + 4
  /\ iterStart' = offset
  /\ blockType' = PaddingTag
  /\ UNCHANGED <<session, input, env, file, pc, mainDataBlocksSize, blocks, t07, part,
                 result, partReadHi>>

\* the iteration reads the tag `tag`
ReadsTag(tag) ==
  /\ pc = "scan"
  /\ LoopGuard
  /\ InBounds(file, offset, 4)
  /\ getUint32(file, offset) # 0
  /\ getUint8(file, offset) = tag

\* an iteration whose case calls one of the block parsers: r is its outcome
FinishBlock(r) ==
  /\ iterStart' = offset
  /\ blockType' = getUint8(file, offset)
  /\ offset' = r.offset
  /\ IF r.ok
     THEN /\ blocks' = IF Truthy(r.block) THEN Append(blocks, r.block) ELSE blocks
          /\ pc' = "scan"
     ELSE /\ blocks' = blocks
          /\ pc' = "raised"
  /\ UNCHANGED <<session, input, env, file, mainDataBlocksSize, t07, part, result, partReadHi>>

ScanType01 == ReadsTag(1) /\ FinishBlock(parseType01(file, offset + 1))

ScanType02 == ReadsTag(2) /\ FinishBlock(parseType02(file, offset + 1))

ScanType03 == ReadsTag(3) /\ FinishBlock(parseType03(file, offset + 1))

\* case 0x04: this.offset += 1 after the tag byte, block stays undefined
ScanType04 ==
  ReadsTag(4) /\ FinishBlock([ok |-> TRUE, offset |-> offset + 1 + 1, block |-> NoBlock])

ScanType05 == ReadsTag(5) /\ FinishBlock(parseType05(file, offset + 1))

ScanType06 == ReadsTag(6) /\ FinishBlock(parseType06(file, offset + 1))

\* case 0x08: this.offset += 1 after the tag byte, block stays undefined
ScanType08 ==
  ReadsTag(8) /\ FinishBlock([ok |-> TRUE, offset |-> offset + 1 + 1, block |-> NoBlock])

ScanType09 == ReadsTag(9) /\ FinishBlock(parseType09(file, offset + 1))

\* the default case with the cursor put back on the tag byte
ScanUnknown_KeepsCursor ==
  /\ \E tag \in 0 .. 255 : tag \notin 1 .. 9 /\ ReadsTag(tag)
  /\ FinishBlock([ok |-> TRUE, offset |-> offset, block |-> NoBlock])

\* default: only the tag byte is consumed
ScanUnknown ==
  /\ \E tag \in 0 .. 255 : tag \notin 1 .. 9 /\ ReadsTag(tag)
  /\ FinishBlock([ok |-> TRUE, offset |-> offset + 1, block |-> NoBlock])

\* the tag read at `off` and the switch over it, for the tags whose case
\* calls a block parser that is a function of the bytes alone
BlockParserTags == {1, 2, 3, 5, 6, 9}

switchBlockType(view, off) ==
  CASE getUint8(view, off) = 1 -> parseType01(view, off + 1)
    [] getUint8(view, off) = 2 -> parseType02(view, off + 1)
    [] getUint8(view, off) = 3 -> parseType03(view, off + 1)
    [] getUint8(view, off) = 5 -> parseType05(view, off + 1)
    [] getUint8(view, off) = 6 -> parseType06(view, off + 1)
    [] getUint8(view, off) = 9 -> parseType09(view, off + 1)

(***************************************************************************)
(* parseType07 and PartDataParser.parse.  ScanType07 runs parseType07 up   *)
(* to the start of the payload parser's sub-block loop (or to its return   *)
(* when no loop is started); the loop's iterations are the Part actions,   *)
(* the last of which returns from parseType07 and pushes the DATA block.   *)
(***************************************************************************)
\* the arguments of partDataParser.parse(decryptedData.buffer): the call
\* passes the buffer only, so the parameter t07blockSize is undefined
ParseArguments(buffer, blockSize) == [arrayBuffer |-> buffer, t07blockSize |-> Undefined]

\* decryptedData.buffer: the decrypted bytes own their buffer, while the
\* fallback `decryptedData = encryptedData` is a view on the file's buffer
BufferOf(decryptRaised, decryptedData, fileBuffer) ==
  IF decryptRaised THEN fileBuffer ELSE decryptedData

\* the sub-block loop run on the whole buffer
TrimmedBuffer_NoTrim(arrayBuffer, partSize) == arrayBuffer

\* const trimmedBuffer = arrayBuffer.slice(0, 4 + partSize)
TrimmedBuffer(arrayBuffer, partSize) == SliceTo(arrayBuffer, 4 + partSize)

\* PartDataParser.parse from init to the head of the sub-block loop
PartParseBegin(args) ==
  LET AtLoopHead(h) ==
        [ok |-> h.ok,
         part |-> [arrayBuffer |-> args.arrayBuffer,
                   dataView |-> IF h.ok
                                THEN TrimmedBuffer(args.arrayBuffer, h.header.part_size)
                                ELSE args.arrayBuffer,
                   offset |-> h.offset,
                   cur_block_size |-> args.t07blockSize,
                   pin_block_size |-> 0],
         result |-> [header |-> h.header, sub_blocks |-> <<>>]]
  IN  AtLoopHead(parseHeader(args.arrayBuffer, 0))

\* the DATA object with the ciphertext recorded as decrypted_data
DataBlock_CipherAsPlain(locals, parsedData) ==
  [DATA |-> [block_size |-> locals.blockSize,
             encrypted_data |-> locals.encryptedData,
             decrypted_data |-> locals.encryptedData,
             parsed_data |-> parsedData]]

\* the object parseType07 returns
DataBlock(locals, parsedData) ==
  [DATA |-> [block_size |-> locals.blockSize,
             encrypted_data |-> locals.encryptedData,
             decrypted_data |-> locals.decryptedData,
             parsed_data |-> parsedData]]

\* parseType07 returns: the scan pushes its block and goes on
ReturnData(locals, parsedData) ==
  /\ blocks' = Append(blocks, DataBlock(locals, parsedData))
  /\ pc' = "scan"

ScanType07 ==
  /\ ReadsTag(7)
  /\ iterStart' = offset
  /\ blockType' = 7
  /\ UNCHANGED <<input, env, file, mainDataBlocksSize>>
  /\ IF ~InBounds(file, offset + 1, 4)
     THEN /\ offset' = offset + 1
          /\ pc' = "raised"
          /\ UNCHANGED <<session, blocks, t07, part, result, partReadHi>>
     ELSE LET blockSize == getUint32(file, offset + 1) IN
          IF ~InBounds(file, offset + 5, blockSize)
          THEN /\ offset' = offset + 5
               /\ pc' = "raised"
               /\ UNCHANGED <<session, blocks, t07, part, result, partReadHi>>
          ELSE
            /\ offset' = offset + 5 + blockSize
            /\ \E d \in DecryptOutcomes(Bytes(file, offset + 5, blockSize), env.CryptoJS) :
                 LET encryptedData == Bytes(file, offset + 5, blockSize)
                     decryptedData == IF d.raised THEN encryptedData ELSE d.bytes
                     locals == [blockSize |-> blockSize,
                                encryptedData |-> encryptedData,
                                decryptedData |-> decryptedData,
                                decryptRaised |-> d.raised,
                                parseRaised |-> FALSE]
                     arguments == ParseArguments(BufferOf(d.raised, decryptedData, file),
                                                 blockSize)
                 IN  /\ SameAsBefore(d)
                     /\ session' = Decrypted(d)
                     /\ IF ~env.PartDataParser
                        THEN /\ t07' = locals
                             /\ ReturnData(locals, Null)
                             /\ UNCHANGED <<part, result, partReadHi>>
                        ELSE \E p \in {PartParseBegin(arguments)} :
                               /\ part' = p.part
                               /\ result' = p.result
                               /\ partReadHi' = 0
                               /\ IF p.ok
                                  THEN /\ t07' = locals
                                       /\ pc' = "sub"
                                       /\ blocks' = blocks
                                  ELSE /\ t07' = [locals EXCEPT !.parseRaised = TRUE]
                                       /\ ReturnData(locals, Null)

\* while (this.offset + this.pin_block_size < this.dataView.byteLength)
SubLoopGuard == part.offset + part.pin_block_size < Len(part.dataView)

SubBlockResult == parseSubBlock(part.dataView, part.offset, part.cur_block_size)

\* an iteration that pushes a sub-block, a pin array leaving its blockSize
\* in pin_block_size
PartSubBlock_SetsPinBlockSize ==
  /\ pc = "sub"
  /\ SubLoopGuard
  /\ \E r \in {SubBlockResult} :
       /\ r.ok
       /\ r.sub # Null
       /\ part' = [part EXCEPT !.offset = r.offset,
                               !.pin_block_size = IF r.sub.type = "sub_type_09"
                                                  THEN r.sub.block_size ELSE @]
       /\ result' = [result EXCEPT !.sub_blocks = Append(@, r.sub)]
       /\ partReadHi' = Max(partReadHi, r.hi)
  /\ UNCHANGED <<session, input, env, file, pc, offset, mainDataBlocksSize, blocks,
                 iterStart, blockType, t07>>

\* an iteration that decodes a sub-block and pushes it
PartSubBlock ==
  /\ pc = "sub"
  /\ SubLoopGuard
  /\ \E r \in {SubBlockResult} :
       /\ r.ok
       /\ r.sub # Null
       /\ part' = [part EXCEPT !.offset = r.offset]
       /\ result' = [result EXCEPT !.sub_blocks = Append(@, r.sub)]
       /\ partReadHi' = Max(partReadHi, r.hi)
  /\ UNCHANGED <<session, input, env, file, pc, offset, mainDataBlocksSize, blocks,
                 iterStart, blockType, t07>>

\* an iteration in which a read raises: caught by parseType07
PartSubBlockRaises ==
  /\ pc = "sub"
  /\ SubLoopGuard
  /\ \E r \in {SubBlockResult} :
       /\ ~r.ok
       /\ part' = [part EXCEPT !.offset = r.offset]
       /\ partReadHi' = Max(partReadHi, r.hi)
  /\ t07' = [t07 EXCEPT !.parseRaised = TRUE]
  /\ ReturnData(t07, Null)
  /\ UNCHANGED <<session, input, env, file, offset, mainDataBlocksSize, iterStart,
                 blockType, result>>

\* the loop ends (guard false, or parseSubBlock returned null) and parse
\* returns its result
PartParseReturns ==
  /\ pc = "sub"
  /\ IF SubLoopGuard
     THEN \E r \in {SubBlockResult} :
            /\ r.ok
            /\ r.sub = Null
            /\ part' = [part EXCEPT !.offset = r.offset]
            /\ partReadHi' = Max(partReadHi, r.hi)
     ELSE UNCHANGED <<part, partReadHi>>
  /\ ReturnData(t07, result)
  /\ UNCHANGED <<session, input, env, file, offset, mainDataBlocksSize, iterStart,
                 blockType, t07, result>>

Next ==
  \/ ParseBegin
  \/ ParseAgain
  \/ ParseSameBuffer
  \/ ScanEnd
  \/ ScanPaddingCheckRaises
  \/ ScanPadding
  \/ ScanType01
  \/ ScanType02
  \/ ScanType03
  \/ ScanType04
  \/ ScanType05
  \/ ScanType06
  \/ ScanType07
  \/ ScanType08
  \/ ScanType09
  \/ ScanUnknown
  \/ PartSubBlock
  \/ PartSubBlockRaises
  \/ PartParseReturns

Spec == Init /\ [][Next]_vars

(***************************************************************************)
(* Properties                                                              *)
(***************************************************************************)
Last(seq) == seq[Len(seq)]

\* the body of the file: the bytes after the 0x44-byte header
Body(buf) == SubSeq(buf, HeaderEnd + 1, Len(buf))

\* the latest scan iteration was a DATA block and parseType07 has returned
AfterData == pc \in {"scan", "done"} /\ blockType = 7

BlockKeys == {{"ARC"}, {"VIA"}, {"SEGMENT"}, {"TEXT"}, {"DATA"}}

\* C1: when parse returns, every element of main_data_block is an object
\* with exactly one key among ARC, VIA, SEGMENT, TEXT and DATA (tags 0x03,
\* 0x09, 0x04 and 0x08 add no element).
C1_OnlyTaggedBlocks ==
  pc = "done" => \A i \in 1 .. Len(blocks) : DOMAIN blocks[i] \in BlockKeys

\* C2: on a buffer of at least 0x44 bytes parse never raises.
C2_NeverRaises == Len(input) >= HeaderEnd => pc # "raised"

\* C3: when decryptWithDES raised for a DATA block, the block emitted has
\* decrypted_data = encrypted_data and parsed_data null, and the scan goes on
\* at the byte after the payload.
C3_FallbackSkipsSubParse ==
  (AfterData /\ t07.decryptRaised) =>
     /\ Last(blocks) = DataBlock([t07 EXCEPT !.decryptedData = t07.encryptedData], Null)
     /\ offset = iterStart + 5 + t07.blockSize

\* C4: with a non-zero byte at 0x10, parse XORs exactly the bytes before the
\* first occurrence of the marker (all bytes when there is none) and leaves
\* the bytes from the marker on unchanged.
C4_XorStopsAtMarker ==
  (pc # "start" /\ Len(input) > 16 /\ input[17] # 0) =>
     file = XorPrefix(input, MarkerLength(input), input[17])

\* C5: while the payload of a successfully decrypted DATA block is parsed,
\* the pin-loop bound cur_block_size is the blockSize of the DATA block.
C5_PinBoundIsBlockSize ==
  (pc = "sub" /\ ~t07.decryptRaised) => part.cur_block_size = t07.blockSize

\* the x, y, pin_name and net index of a pin
PinView(p) == <<p.x, p.y, p.pin_name, p.netIndex>>

\* C6: a DATA block whose plaintext is a payload with one pin array of two
\* pins yields exactly those two pins, in order, also when bytes follow the
\* payload's 4 + part_size bytes.
C6_TwoPinsDecoded ==
  (/\ AfterData
   /\ env.PartDataParser
   /\ ~t07.decryptRaised
   /\ t07.decryptedData \in {PinsPayload, PinsPayload \o <<5, 28, 0, 0, 0>>}) =>
     LET parsed == Last(blocks).DATA.parsed_data
     IN  /\ parsed # Null
         /\ Len(parsed.sub_blocks) = 1
         /\ parsed.sub_blocks[1].type = "sub_type_09"
         /\ Len(parsed.sub_blocks[1].pins) = 2
         /\ PinView(parsed.sub_blocks[1].pins[1]) = PinView(PinA)
         /\ PinView(parsed.sub_blocks[1].pins[2]) = PinView(PinB)

\* the step on which a parse of the payload raised and parseType07 returned
SubParseRaisedStep ==
  /\ pc \in {"scan", "sub"}
  /\ pc' = "scan"
  /\ blockType' = 7
  /\ t07'.parseRaised
  /\ (pc = "sub" \/ offset' # offset)

\* C7: when the payload parser raises, exactly one DATA element is pushed,
\* holding block_size, the ciphertext and the plaintext with parsed_data
\* null, and the cursor is at tag offset + 5 + blockSize.
C7_SubParseFailureContained ==
  [][SubParseRaisedStep =>
       /\ blocks' = Append(blocks,
                      [DATA |-> [block_size |-> t07'.blockSize,
                                 encrypted_data |->
                                   Bytes(file, iterStart' + 5, t07'.blockSize),
                                 decrypted_data |-> t07'.decryptedData,
                                 parsed_data |-> Null]])
       /\ getUint32(file, iterStart' + 1) = t07'.blockSize
       /\ offset' = iterStart' + 5 + t07'.blockSize]_vars

\* a payload that decrypted to a plaintext other than the ciphertext made the
\* payload parser raise inside its sub-block loop
C7_Witness ==
  /\ AfterData
  /\ t07.parseRaised
  /\ ~t07.decryptRaised
  /\ t07.decryptedData # t07.encryptedData
  /\ result.header # Null
  /\ Last(blocks).DATA.parsed_data = Null

\* the payload parser has parsed a header and is in or past its loop
HeaderParsed == (pc = "sub" \/ (AfterData /\ env.PartDataParser)) /\ result.header # Null

\* the cursor at which parseHeader ends
HeaderEndOf(header) == 26 + header.part_group_name_size

\* C8: once the header is parsed, the working buffer is the first
\* min(4 + part_size, length) bytes of the buffer given to parse, no read of
\* the sub-block loop goes beyond offset 4 + part_size, and no sub-block is
\* decoded when the header ends at or beyond 4 + part_size.
C8_WorkingBufferTrimmed ==
  HeaderParsed =>
     LET partSize == result.header.part_size IN
     /\ part.dataView =
          SubSeq(part.arrayBuffer, 1, Min(4 + partSize, Len(part.arrayBuffer)))
     /\ partReadHi <= 4 + partSize
     /\ (HeaderEndOf(result.header) >= 4 + partSize => result.sub_blocks = <<>>)

\* sub-blocks were decoded from a plaintext that is longer than 4 + part_size
C8_Witness ==
  /\ AfterData
  /\ HeaderParsed
  /\ ~t07.decryptRaised
  /\ Len(part.arrayBuffer) > 4 + result.header.part_size
  /\ result.sub_blocks # <<>>
  /\ Last(blocks).DATA.parsed_data = result

\* the arcs and blockSize values of the single-record files
ArcCases ==
  {[size |-> 32, arc |-> ArcA], [size |-> 0, arc |-> ArcB],
   [size |-> 32, arc |-> ArcNeg], [size |-> Gen.hugeSize, arc |-> ArcA]}

ViaCases ==
  {[size |-> 21, via |-> ViaScenario], [size |-> 21, via |-> ViaA],
   [size |-> 0, via |-> ViaB], [size |-> 21, via |-> ViaNeg],
   [size |-> Gen.hugeSize, via |-> ViaB]}

\* what parse yields for a file holding the one VIA record of case c
SingleViaDecoded(c) ==
  /\ blocks = <<[VIA |-> c.via]>>
  /\ offset = HeaderEnd + 37 + Len(Utf8Encode(c.via.via_text))

\* C10 as stated: a file of the header and one VIA record yields exactly one
\* VIA element with the encoded values and consumes 37 + L bytes, for every
\* mainDataBlocksSize, also one smaller than the record.
C10_SingleViaAnyBudget ==
  \A c \in ViaCases :
    (pc = "done" /\ Body(file) = EncVia(c.size, c.via)) => SingleViaDecoded(c)

\* C10 amended: the same for every mainDataBlocksSize of at least 1.
C10_SingleViaBudgetAtLeastOne ==
  \A c \in ViaCases :
    (pc = "done" /\ mainDataBlocksSize >= 1 /\ Body(file) = EncVia(c.size, c.via)) =>
       SingleViaDecoded(c)

\* the spec's scenario: budget 13, blockSize 21, empty text
C10_Witness ==
  /\ pc = "done"
  /\ mainDataBlocksSize = 13
  /\ Body(file) = EncVia(21, ViaScenario)
  /\ blocks = <<[VIA |-> ViaScenario]>>
  /\ offset = HeaderEnd + 37

\* the scan is about to start an iteration at four zero bytes
AtPadding ==
  pc = "scan" /\ LoopGuard /\ InBounds(file, offset, 4) /\ getUint32(file, offset) = 0

\* the scan has just skipped padding and is about to read a block parser's tag
AfterPadding ==
  /\ pc = "scan" /\ blockType = PaddingTag /\ LoopGuard
  /\ InBounds(file, offset, 4) /\ getUint8(file, offset) \in BlockParserTags

\* the file without the four bytes before the cursor
WithoutPadding == SubSeq(file, 1, offset - 4) \o SubSeq(file, offset + 1, Len(file))

\* C11: an iteration that starts at four bytes reading as a zero u32 moves
\* the cursor by exactly 4, reads no tag and emits no block; a block that
\* follows the padding and is valid without it is decoded to the same block,
\* the cursor ending 4 bytes further than without the padding.
C11_PaddingSkipped ==
  [][ /\ AtPadding =>
           /\ offset' = offset + 4
           /\ blocks' = blocks
           /\ blockType' = PaddingTag
           /\ pc' = "scan"
      /\ AfterPadding =>
           \A r \in {switchBlockType(WithoutPadding, offset - 4)} :
              r.ok => /\ pc' = "scan"
                      /\ offset' = r.offset + 4
                      /\ blocks' = IF Truthy(r.block) THEN Append(blocks, r.block)
                                   ELSE blocks ]_vars

\* four zero bytes and an ARC record: the arc has been decoded after the padding
C11_Witness ==
  /\ pc = "done"
  /\ Body(file) = Zeros(4) \o EncArc(32, ArcA)
  /\ blocks = <<[ARC |-> ArcA]>>
  /\ offset = HeaderEnd + 4 + 37

\* the scan is about to start an iteration at a byte that is no tag of
\* 0x01..0x09 and no padding
AtUnknownTag ==
  /\ pc = "scan" /\ LoopGuard /\ ~AtPadding
  /\ getUint8(file, offset) \notin 1 .. 9

\* C12: an iteration that starts at a tag outside 0x01..0x09 inside the scan
\* budget does not raise, adds no element to main_data_block and moves the
\* cursor by exactly 1 byte.
C12_UnknownTagSkipped ==
  [][AtUnknownTag => (pc' = "scan" /\ blocks' = blocks /\ offset' = offset + 1)]_vars

\* C13: parse raises on every buffer shorter than 0x44 bytes, and on no
\* other buffer.
C13_RaisesOnlyOnShortHeader ==
  /\ (Len(input) < HeaderEnd /\ pc # "start") => pc = "raised"
  /\ pc = "raised" => Len(input) < HeaderEnd

\* C14: when byte 0x10 of the buffer is zero, parse leaves every byte of the
\* buffer as given.
C14_PlainFileUntouched ==
  (InBounds(input, 16, 1) /\ getUint8(input, 16) = 0) => file = input

\* a plain file has been scanned to its end and two blocks were decoded
C14_Witness ==
  /\ pc = "done"
  /\ getUint8(input, 16) = 0
  /\ file = input
  /\ Len(blocks) = 2

\* keys tried on every obfuscated input buffer
XorKeys == {1, Gen.key, 127, 255}

\* C15: XORing a buffer with a key k # 0 twice over the same computed length
\* restores its bytes: for every input buffer parse de-obfuscates (byte 0x10
\* is not zero) and every key of XorKeys, and for the XOR step parse has
\* applied to such a file.
C15_XorTwiceRestores ==
  /\ (pc = "start" /\ InBounds(input, 16, 1) /\ getUint8(input, 16) # 0) =>
       \A n \in {xoredDataLength(input)} : \A k \in XorKeys :
         XorPrefix(XorPrefix(input, n, k), n, k) = input
  /\ (pc = "scan" /\ offset = HeaderEnd /\ getUint8(input, 16) # 0) =>
       XorPrefix(file, xoredDataLength(input), getUint8(input, 16)) = input

\* parse has de-obfuscated a file: its bytes differ from the input's
C15_Witness ==
  /\ pc = "scan"
  /\ offset = HeaderEnd
  /\ getUint8(input, 16) = Gen.key
  /\ file # input
  /\ getUint8(file, 16) = 0

\* C16: the budget is the u32 at 0x40 and the scan starts at 0x44; every
\* scan iteration begins at a cursor below both 0x44 + mainDataBlocksSize and
\* the buffer length, and the scan has ended only with the cursor at or
\* beyond one of the two bounds.
C16_ScanWithinBudget ==
  /\ pc \in {"scan", "sub", "done"} => mainDataBlocksSize = getUint32(file, 64)
  /\ (pc = "scan" /\ iterStart = 0) => offset = HeaderEnd
  /\ iterStart # 0 =>
       /\ iterStart >= HeaderEnd
       /\ iterStart < HeaderEnd + mainDataBlocksSize
       /\ iterStart < Len(file)
  /\ pc = "done" =>
       (offset >= HeaderEnd + mainDataBlocksSize \/ offset >= Len(file))

\* the budget ended the scan after the first of two records
C16_Witness ==
  /\ pc = "done"
  /\ mainDataBlocksSize = 37
  /\ offset = HeaderEnd + mainDataBlocksSize
  /\ offset < Len(file)
  /\ blocks = <<[ARC |-> ArcA]>>

\* C17: a parse of bytes the instance has parsed before, after it has
\* parsed (or failed on) another buffer, ends as the first parse of these
\* bytes on the new instance did: raised, or returned the same blocks.
C17_NoStateLeaks ==
  (Repeated /\ pc \in {"done", "raised"}) =>
     /\ pc = session.first.pc
     /\ pc = "done" => blocks = session.first.blocks

\* the two records under a budget of 1 were parsed again after a buffer with
\* a budget of 4096: the budget of 1 ended the scan after the first record
C17_Witness ==
  /\ Repeated
  /\ pc = "done"
  /\ input = FileOf("A", 1, EncArc(32, ArcA) \o EncVia(21, ViaA))
  /\ blocks = <<[ARC |-> ArcA]>>
  /\ blocks = session.first.blocks

\* C19: when a read of a sub-block passes the end of the working buffer,
\* the DATA block carries as parsed_data the header and the sub-blocks
\* accumulated before that read.
C19_PartialResultReturned ==
  (AfterData /\ t07.parseRaised /\ result.header # Null) =>
     Last(blocks).DATA.parsed_data = result

RECURSIVE PinBytes(_)
\* the bytes the pin records `pins` take: 73 + pin_name_size each
PinBytes(pins) ==
  IF pins = <<>> THEN 0
  ELSE 73 + Head(pins).pin_name_size + PinBytes(Tail(pins))

\* C20: an iteration of the sub-block loop that pushes a pin array has
\* decoded a pin exactly while cursor + blockSize <= the DATA block's
\* blockSize held, each pin moving the cursor by 73 + pin_name_size bytes.
C20_PinsWhileInsideBlock ==
  [][ (/\ pc = "sub" /\ pc' = "sub"
       /\ Len(result'.sub_blocks) = Len(result.sub_blocks) + 1
       /\ Last(result'.sub_blocks).type = "sub_type_09") =>
        \A sub \in {Last(result'.sub_blocks)} :
           /\ part'.offset = part.offset + 5 + PinBytes(sub.pins)
           /\ \A k \in 0 .. Len(sub.pins) - 1 :
                part.offset + 5 + PinBytes(SubSeq(sub.pins, 1, k)) + sub.block_size
                  <= t07.blockSize
           /\ part'.offset + sub.block_size > t07.blockSize ]_vars

\* the header has just been parsed: the sub-block loop has not pushed yet
AtLoopHead == pc = "sub" /\ result.header # Null /\ result.sub_blocks = <<>>

\* the header fields as read from fixed offsets of the buffer given to parse
HeaderAt(buffer) ==
  LET size == getUint32(buffer, 22)
  IN  [part_size |-> getUint32(buffer, 0), part_x |-> getUint32(buffer, 8),
       part_y |-> getUint32(buffer, 12), part_rotation |-> getUint32(buffer, 16),
       visibility |-> getUint8(buffer, 20), part_group_name_size |-> size,
       part_group_name |-> IF size = 0 THEN <<>>
                           ELSE TextDecode(Bytes(buffer, 26, size))]

AtSkipTag == ReadsTag(4) \/ ReadsTag(8)

AtSubTag == pc = "sub" /\ SubLoopGuard

\* ... and that tag is none of 0x01, 0x05, 0x06 and 0x09
AtUnknownSubTag == AtSubTag /\ getUint8(part.dataView, part.offset) \notin {1, 5, 6, 9}

\* C23: a sub-type tag other than 0x01, 0x05, 0x06 and 0x09 ends the
\* sub-block loop without raising: only the tag byte is read, and parse
\* returns the header and exactly the sub-blocks decoded before the tag,
\* which become parsed_data of the DATA block.
C23_UnknownSubTagEndsLoop ==
  [][AtUnknownSubTag =>
       /\ pc' = "scan"
       /\ ~t07'.parseRaised
       /\ result' = result
       /\ part'.offset = part.offset + 1
       /\ partReadHi' <= part.offset + 1
       /\ blocks' = Append(blocks, [DATA |-> [block_size |-> t07.blockSize,
                                              encrypted_data |-> t07.encryptedData,
                                              decrypted_data |-> t07.decryptedData,
                                              parsed_data |-> result]])]_vars

\* parse has returned one geometry sub-block: an unknown tag (0x7F) followed
\* it, and a line segment inside part_size follows that tag undecoded
C23_Witness ==
  /\ AfterData
  /\ HeaderParsed
  /\ ~t07.decryptRaised
  /\ ~t07.parseRaised
  /\ part.offset >= 1
  /\ part.offset + 33 <= Len(part.dataView)
  /\ getUint8(part.dataView, part.offset - 1) = 127
  /\ getUint8(part.dataView, part.offset) = 5
  /\ Len(result.sub_blocks) = 1
  /\ result.sub_blocks[1].type = "sub_type_01"
  /\ Last(blocks).DATA.parsed_data = result

\* the sub-block loop is about to read the tag 0x01 with its four fields
\* inside the working buffer
AtGeometry ==
  /\ AtSubTag
  /\ getUint8(part.dataView, part.offset) = 1
  /\ InBounds(part.dataView, part.offset + 1, 16)

\* the geometry sub-block whose tag is at offset o of the view
GeometryAt(view, o) ==
  [type |-> "sub_type_01", sub_type_identifier_01 |-> 1,
   block_size |-> getUint32(view, o + 1), layer |-> getUint32(view, o + 5),
   x1 |-> getUint32(view, o + 9), y1 |-> getUint32(view, o + 13),
   padding_size |-> getUint32(view, o + 1) - 12]

\* C24: a geometry sub-block (tag 0x01) consumes exactly 5 + blockSize bytes
\* in total, also for blockSize < 12, where the skip of blockSize - 12 bytes
\* moves the cursor backwards; every iteration after which the sub-block
\* loop goes on advances the cursor by at least 5 bytes, so the loop has
\* pushed at most (cursor - 26) / 5 sub-blocks and ends on a finite payload.
C24_GeometryConsumesBlockSize ==
  [][ /\ AtGeometry =>
           /\ pc' = "sub"
           /\ part'.offset = part.offset + 5 + getUint32(part.dataView, part.offset + 1)
           /\ result'.sub_blocks =
                Append(result.sub_blocks, GeometryAt(part.dataView, part.offset))
      /\ (pc = "sub" /\ pc' = "sub") =>
           /\ part'.offset >= part.offset + 5
           /\ Len(result'.sub_blocks) = Len(result.sub_blocks) + 1
           /\ 26 + 5 * Len(result'.sub_blocks) <= part'.offset ]_vars

\* geometry sub-blocks with blockSize 0 and 4 were decoded, and the line
\* segment that starts where the second one ends was decoded after them
C24_Witness ==
  /\ AfterData
  /\ HeaderParsed
  /\ ~t07.parseRaised
  /\ Len(result.sub_blocks) = 3
  /\ result.sub_blocks[1].type = "sub_type_01"
  /\ result.sub_blocks[1].block_size = 0
  /\ result.sub_blocks[2].type = "sub_type_01"
  /\ result.sub_blocks[2].block_size = 4
  /\ result.sub_blocks[2].padding_size = -8
  /\ result.sub_blocks[3].type = "sub_type_05"
  /\ result.sub_blocks[3].scale = 6
  /\ part.offset = 28 + 5 + 9 + 33
  /\ Last(blocks).DATA.parsed_data = result

\* the scan is about to start an iteration
AtIteration == pc = "scan" /\ LoopGuard

\* the scan is about to read a tag whose record is blockSize bytes to skip
\* (0x03, 0x09) or to decrypt (0x07), with all of the record in the buffer
AtSizedBlock ==
  /\ ReadsTag(3) \/ ReadsTag(7) \/ ReadsTag(9)
  /\ InBounds(file, offset + 1, 4)
  /\ InBounds(file, offset + 5, getUint32(file, offset + 1))

\* C25: every iteration of the scan starts at a cursor in 0x44 .. length - 1
\* that is greater than the start of the iteration before it, and either
\* raises or moves the cursor forward: by 4 for padding, by at least 1 for
\* any tag, by 5 + blockSize for the sized blocks 0x03, 0x09 and DATA.  The
\* starts being distinct offsets of 0x44 .. length - 1, the scan returns or
\* raises after at most length - 0x44 iterations.
C25_ScanCursorIncreases ==
  [][ /\ AtIteration =>
           /\ HeaderEnd <= offset /\ offset < Len(file)
           /\ iterStart < offset
           /\ iterStart' = offset
           /\ pc' = "raised" \/ offset' >= offset + 1
      /\ AtPadding => offset' = offset + 4
      /\ AtSizedBlock => offset' = offset + 5 + getUint32(file, offset + 1)
      /\ ~AtIteration => (offset' = offset \/ pc = "start" \/ pc' = "start") ]_vars

\* the scan has returned after a later iteration skipped a sized block of
\* tag 0x03 or 0x09
C25_Witness ==
  /\ pc = "done"
  /\ blockType \in {3, 9}
  /\ iterStart > HeaderEnd
  /\ offset = iterStart + 5 + getUint32(file, iterStart + 1)
  /\ getUint32(file, iterStart + 1) > 0
  /\ offset = Len(file)

\* the running or ended call is the second parse of one buffer
SecondParse == session.same

\* C26: when parse returns after an XOR pass, byte 0x10 of the buffer is 0;
\* a second parse of the same buffer applies no XOR, leaves the buffer
\* unchanged, returns too, and its main_data_block equals the first one.
C26_ParseIdempotent ==
  /\ (pc = "done" /\ getUint8(input, 16) # 0) => getUint8(file, 16) = 0
  /\ SecondParse =>
       /\ getUint8(input, 16) = 0
       /\ file = input
       /\ pc # "raised"
       /\ pc = "done" => blocks = session.first.blocks

\* the second parse of a buffer that the first parse de-obfuscated has
\* returned the same DATA block
C26_Witness ==
  /\ SecondParse
  /\ pc = "done"
  /\ getUint8(session.first.input, 16) # 0
  /\ session.first.input # input
  /\ file = input
  /\ Len(blocks) = 1
  /\ blocks[1] = session.first.blocks[1]
  /\ "DATA" \in DOMAIN blocks[1]
  /\ session.used = 1

\* C27: when parsed_data of the DATA block just emitted is not null, the
\* payload parser was given exactly the bytes recorded in decrypted_data, it
\* read no byte beyond them, and the header it returned is the one at the
\* first byte of those bytes; this on the decryption-fallback path too.
C27_ParsedFromOwnPayload ==
  (AfterData /\ Last(blocks).DATA.parsed_data # Null) =>
     \A d \in {Last(blocks).DATA} :
       /\ part.arrayBuffer = d.decrypted_data
       /\ partReadHi <= Len(d.decrypted_data)
       /\ d.parsed_data.header = HeaderAt(d.decrypted_data)

====
